---- MODULE Spec2Model ----
\* Model of src/src/AutobiographyApp.jsx: initialization, sign-in and the
\* subscriptions, the entry form with its save and delete handlers, the
\* collaborative comments, the AI questions, the timeline, the photo requests,
\* the toasts, the derived entry view and the remote store (Firestore) the
\* component talks to.
EXTENDS Integers, Sequences, FiniteSets, TLC

\* ---------------------------------------------------------------------------
\* Bounds of the model
\* ---------------------------------------------------------------------------
MaxEntries == 2
MaxComments == 2
MaxTime == 1
MaxPending == 2
CommentPending == 1
MaxViewEntries == 3
MaxTimers == 3
MaxLikes == 1
MaxTagText == 2
MaxRequests == 2
MaxListeners == 2
MaxTimelineEvents == 3

\* ---------------------------------------------------------------------------
\* Text: a JavaScript string is a sequence of one-character strings
\* ---------------------------------------------------------------------------
Str0 == << >>
StrSp == << " " >>
StrA == << "a" >>

isWhiteSpace(c) == c = " "

toLowerCaseChar(c) ==
  CASE c = "A" -> "a"
    [] c = "P" -> "p"
    [] OTHER -> c

toLowerCase(s) == [i \in 1..Len(s) |-> toLowerCaseChar(s[i])]

RECURSIVE trimStart(_)
trimStart(s) ==
  IF s # << >> /\ isWhiteSpace(Head(s)) THEN trimStart(Tail(s)) ELSE s

RECURSIVE trimEnd(_)
trimEnd(s) ==
  IF s # << >> /\ isWhiteSpace(s[Len(s)])
    THEN trimEnd(SubSeq(s, 1, Len(s) - 1))
    ELSE s

trim(s) == trimEnd(trimStart(s))

includes(s, q) ==
  \E i \in 0..(Len(s) - Len(q)) : SubSeq(s, i + 1, i + Len(q)) = q

\* String.prototype.split(','): the pieces between the commas; "" splits to [""]
RECURSIVE splitFrom(_, _)
splitFrom(s, cur) ==
  IF s = << >> THEN << cur >>
  ELSE IF Head(s) = "," THEN << cur >> \o splitFrom(Tail(s), << >>)
  ELSE splitFrom(Tail(s), Append(cur, Head(s)))

split(s) == splitFrom(s, << >>)

\* JavaScript truthiness of a string: !s is true only for ""
falsy(s) == s = << >>

\* ---------------------------------------------------------------------------
\* Values
\* ---------------------------------------------------------------------------
Null == "null"
Uids == {"u1", "u2"}
EntryIds == 1..MaxEntries
Today == "2020-01-01"

MsgNotReady == "Database not ready. Please try again."
MsgEmpty == "Title and content cannot be empty."
MsgUpdated == "Entry updated successfully!"
MsgAdded == "New entry added successfully!"
MsgSaveFailed == "Failed to save entry"
MsgDeleted == "Entry deleted successfully!"
MsgDeleteFailed == "Failed to delete entry"
MsgNoAnswer == "Please provide an answer."
MsgAnswered == "Memory saved to AI Assistant!"
MsgAnswerFailed == "Failed to save answer"
MsgGenerated == "New AI questions generated"
MsgGenerateFailed == "Failed to generate AI questions"
MsgPhotoSubmitted == "Photo request submitted successfully!"
MsgPhotoFailed == "Failed to submit photo request"
MsgSimulated == "Simulated a response to your photo request!"
MsgCommentEmpty == "Comment cannot be empty."
MsgCommentAdded == "Collaborative comment added!"
MsgCommentFailed == "Failed to add comment"
MsgLiked == "Comment liked!"
MsgLikeFailed == "Failed to like comment"
MsgConfigMissing == "Firebase configuration is missing. Cannot connect to database."
MsgAuthFailed == "Authentication failed"

\* useState initial value of formEntry, and the form openEntryModal() resets to
emptyForm ==
  [title |-> Str0, content |-> Str0, date |-> Today, location |-> Str0,
   tags |-> << >>, privacy |-> "private", type |-> "personal",
   mediaUrls |-> << >>, collaborativeEntries |-> << >>]

mergeFieldsKeep(docu, data) ==
  [f \in (DOMAIN docu) \cup (DOMAIN data) |->
     IF f \in DOMAIN docu THEN docu[f] ELSE data[f]]

\* updateDoc(ref, data): the fields of data replace those of the document
mergeFields(docu, data) ==
  [f \in (DOMAIN docu) \cup (DOMAIN data) |->
     IF f \in DOMAIN data THEN data[f] ELSE docu[f]]

\* snapshot.docs.map(doc => ({ id: doc.id, ...doc.data() })), in document-id order
RECURSIVE docsIn(_, _)
docsIn(coll, ids) ==
  IF ids = {} THEN << >>
  ELSE LET i == CHOOSE x \in ids : \A y \in ids : x <= y
       IN << mergeFields([id |-> i], coll[i]) >> \o docsIn(coll, ids \ {i})

snapshotDocs(coll) == docsIn(coll, DOMAIN coll)

VARIABLES
  configPresent,   \* __firebase_config is provided and not empty
  db,              \* the store handle is set
  userId, isAuthReady, loading, error,
  mounted,         \* the component is mounted
  subscriptions,   \* user ids of the runs of the data effect whose listeners are active
  authListeners,   \* the auth-state listeners that are registered and not unsubscribed
  remoteEntries,   \* per user id: document id -> entry document
  remoteTimelineEvents, remoteAiQuestions, remotePhotoRequests,
  entries,         \* in-memory mirror of the entries collection
  timelineEvents, aiQuestions, photoRequests,
  searchQuery, filterBy,
  showNewEntry, editingEntry, formEntry,
  showFeedback, feedbackMessage, feedbackType,
  timers,          \* setTimeout callbacks of showUserFeedback not yet run
  now,             \* the reading of Date.now()
  pending,         \* comment handlers suspended between getDoc and updateDoc
  lastCalls        \* the remote calls the last step issued

authVars == << configPresent, db, userId, isAuthReady, loading, error >>
lifeVars == << mounted, subscriptions, authListeners >>
storeVars ==
  << remoteEntries, remoteTimelineEvents, remoteAiQuestions, remotePhotoRequests >>
memVars == << entries, timelineEvents, aiQuestions, photoRequests >>
viewVars == << searchQuery, filterBy >>
formVars == << showNewEntry, editingEntry, formEntry >>
toastVars == << showFeedback, feedbackMessage, feedbackType, timers >>
asyncVars == << now, pending >>
opVars == << lastCalls >>
vars ==
  << authVars, lifeVars, storeVars, memVars, viewVars, formVars, toastVars,
     asyncVars, opVars >>

readyDbOnly == db
\* The negation of !db || !userId, the first check of every handler
ready == db /\ userId # Null

\* showUserFeedback(message, type)
showUserFeedback(message, type) ==
  /\ IF mounted
       THEN /\ feedbackMessage' = message
            /\ feedbackType' = type
            /\ showFeedback' = TRUE
       ELSE UNCHANGED << feedbackMessage, feedbackType, showFeedback >>
  /\ timers < MaxTimers
  /\ timers' = timers + 1

call(kind, coll, uid, id) == [kind |-> kind, coll |-> coll, uid |-> uid, id |-> id]

Init ==
  /\ configPresent \in BOOLEAN
  /\ db = FALSE
  /\ userId = Null
  /\ isAuthReady = FALSE
  /\ loading = TRUE
  /\ error = Null
  /\ mounted = TRUE
  /\ subscriptions = << >>
  /\ authListeners = 0
  /\ remoteEntries = [u \in Uids |-> << >>]
  /\ remoteTimelineEvents = [u \in Uids |-> << >>]
  /\ remoteAiQuestions = [u \in Uids |-> << >>]
  /\ remotePhotoRequests = [u \in Uids |-> << >>]
  /\ entries = << >>
  /\ timelineEvents = << >>
  /\ aiQuestions = << >>
  /\ photoRequests = << >>
  /\ searchQuery = Str0
  /\ filterBy = "all"
  /\ showNewEntry = FALSE
  /\ editingEntry = << >>
  /\ formEntry = emptyForm
  /\ showFeedback = FALSE
  /\ feedbackMessage = ""
  /\ feedbackType = "success"
  /\ timers = 0
  /\ now = 0
  /\ pending = << >>
  /\ lastCalls = << >>

\* ---------------------------------------------------------------------------
\* The data effect (useEffect, lines 136-166)
\* ---------------------------------------------------------------------------
effectCleanupNone(subs) == subs
\* The cleanup the effect returns: the listeners of its run are unsubscribed
effectCleanup(subs) == << >>

\* The effect after the render that follows a state change to d, u, r (db,
\* userId, isAuthReady): when one of these changed, the cleanup of the previous
\* run is called and the effect runs again; it subscribes when all are set
dataEffect(d, u, r) ==
  IF << d, u, r >> = << db, userId, isAuthReady >> THEN subscriptions
  ELSE effectCleanup(subscriptions)
         \o (IF d /\ u # Null /\ r THEN << u >> ELSE << >>)

\* The cleanup of the initialization effect (lines 23-73), which React calls
\* before the effect runs again and when the component is removed. The effect's
\* function calls initFirebase() and returns nothing: the function of line 64
\* that calls unsubscribe() is the value the promise of initFirebase resolves
\* to, and is dropped. No listener is unsubscribed
initCleanup(listeners) == listeners

\* The component is removed: the cleanups of the two effects are called
unmount ==
  /\ mounted
  /\ mounted' = FALSE
  /\ subscriptions' = effectCleanup(subscriptions)
  /\ authListeners' = initCleanup(authListeners)
  /\ lastCalls' = << >>
  /\ UNCHANGED << authVars, storeVars, memVars, viewVars, formVars, toastVars,
                  asyncVars >>

\* ---------------------------------------------------------------------------
\* Initialization and authentication (useEffect, lines 23-73)
\* ---------------------------------------------------------------------------
configMissingNever(present) == FALSE
\* !Object.keys(firebaseConfig).length
configMissing(present) == ~present

\* The first run of the effect, after the component is mounted: without a
\* configuration it sets the error and returns; with one it sets the store
\* handle and registers the auth-state listener
initFirebase ==
  /\ mounted
  /\ ~db /\ error = Null /\ loading
  /\ IF configMissing(configPresent)
       THEN /\ error' = MsgConfigMissing
            /\ loading' = FALSE
            /\ UNCHANGED << db, authListeners >>
       ELSE /\ db' = TRUE
            /\ authListeners' = authListeners + 1
            /\ UNCHANGED << error, loading >>
  /\ subscriptions' = dataEffect(db', userId, isAuthReady)
  /\ lastCalls' = << >>
  /\ UNCHANGED << configPresent, userId, isAuthReady, mounted >>
  /\ UNCHANGED << storeVars, memVars, viewVars, formVars, toastVars, asyncVars >>

\* The effect runs again after a later render: its dependency firebaseConfig
\* (line 20) is a new object on every render. React calls the cleanup of the
\* previous run first. Without a configuration the run sets the same error
\* again; with one, initializeApp and getFirestore give the same handles and
\* onAuthStateChanged registers one more listener
initFirebaseAgain ==
  /\ mounted
  /\ db \/ error # Null
  /\ IF configMissing(configPresent)
       THEN /\ error' = MsgConfigMissing
            /\ loading' = FALSE
            /\ authListeners' = initCleanup(authListeners)
       ELSE /\ initCleanup(authListeners) < MaxListeners
            /\ authListeners' = initCleanup(authListeners) + 1
            /\ UNCHANGED << error, loading >>
  /\ lastCalls' = << >>
  /\ UNCHANGED << configPresent, db, userId, isAuthReady, mounted, subscriptions >>
  /\ UNCHANGED << storeVars, memVars, viewVars, formVars, toastVars, asyncVars >>

\* The auth-state listener's callback, called with a signed-in user
onAuthStateChangedUser(user) ==
  /\ authListeners > 0
  /\ db /\ mounted
  /\ userId' = user
  /\ isAuthReady' = TRUE
  /\ loading' = FALSE
  /\ subscriptions' = dataEffect(db, user, TRUE)
  /\ lastCalls' = << >>
  /\ UNCHANGED << configPresent, db, error, mounted, authListeners >>
  /\ UNCHANGED << storeVars, memVars, viewVars, formVars, toastVars, asyncVars >>

\* The callback called with no user: it attempts a sign-in, which may fail
onAuthStateChangedNoUser(signInOk) ==
  /\ authListeners > 0
  /\ db /\ mounted
  /\ error' = IF signInOk THEN error ELSE MsgAuthFailed
  /\ loading' = FALSE
  /\ lastCalls' = << >>
  /\ UNCHANGED << configPresent, db, userId, isAuthReady, lifeVars >>
  /\ UNCHANGED << storeVars, memVars, viewVars, formVars, toastVars, asyncVars >>

\* ---------------------------------------------------------------------------
\* Subscription to the entries collection (fetchCollection, lines 136-166)
\* ---------------------------------------------------------------------------
onSnapshotEntries ==
  /\ mounted
  /\ \E k \in 1..Len(subscriptions) :
       entries' = snapshotDocs(remoteEntries[subscriptions[k]])
  /\ lastCalls' = << >>
  /\ UNCHANGED << timelineEvents, aiQuestions, photoRequests >>
  /\ UNCHANGED << authVars, lifeVars, storeVars, viewVars, formVars, toastVars, asyncVars >>

\* The 3-second timer of a toast runs out
feedbackTimeout ==
  /\ timers > 0
  /\ timers' = timers - 1
  /\ IF mounted
       THEN /\ showFeedback' = FALSE
            /\ feedbackMessage' = ""
       ELSE UNCHANGED << showFeedback, feedbackMessage >>
  /\ lastCalls' = << >>
  /\ UNCHANGED feedbackType
  /\ UNCHANGED << authVars, lifeVars, storeVars, memVars, viewVars, formVars, asyncVars >>

\* Date.now() moves on
tick ==
  /\ now < MaxTime
  /\ now' = now + 1
  /\ lastCalls' = << >>
  /\ UNCHANGED pending
  /\ UNCHANGED << authVars, lifeVars, storeVars, memVars, viewVars, formVars, toastVars >>

\* ---------------------------------------------------------------------------
\* The entry form (lines 171-200, 587, 603-670)
\* ---------------------------------------------------------------------------
formOf(entryToEdit) ==
  [title |-> entryToEdit.title, content |-> entryToEdit.content,
   date |-> entryToEdit.date, location |-> entryToEdit.location,
   tags |-> entryToEdit.tags, privacy |-> entryToEdit.privacy,
   type |-> entryToEdit.type, mediaUrls |-> entryToEdit.mediaUrls,
   collaborativeEntries |-> entryToEdit.collaborativeEntries]

\* openEntryModal(entryToEdit); << >> stands for the null argument
openEntryModal(entryToEdit) ==
  /\ IF entryToEdit # << >>
       THEN /\ editingEntry' = entryToEdit
            /\ formEntry' = formOf(entryToEdit[1])
       ELSE /\ editingEntry' = << >>
            /\ formEntry' = emptyForm
  /\ showNewEntry' = TRUE
  /\ lastCalls' = << >>
  /\ UNCHANGED << authVars, lifeVars, storeVars, memVars, viewVars, toastVars, asyncVars >>

closeEntryModal ==
  /\ showNewEntry
  /\ showNewEntry' = FALSE
  /\ lastCalls' = << >>
  /\ UNCHANGED << editingEntry, formEntry >>
  /\ UNCHANGED << authVars, lifeVars, storeVars, memVars, viewVars, toastVars, asyncVars >>

\* onChange of a form field; the tags field stores e.target.value.split(',')
setFormField(field, value) ==
  /\ showNewEntry
  /\ formEntry' = [formEntry EXCEPT ![field] = value]
  /\ lastCalls' = << >>
  /\ UNCHANGED << showNewEntry, editingEntry >>
  /\ UNCHANGED << authVars, lifeVars, storeVars, memVars, viewVars, toastVars, asyncVars >>

setTags(text) == setFormField("tags", split(text))

\* ---------------------------------------------------------------------------
\* handleSaveEntry (lines 203-239)
\* ---------------------------------------------------------------------------
titleMissingTitleOnly(form) == falsy(form.title)
\* !formEntry.title || !formEntry.content
titleMissing(form) == falsy(form.title) \/ falsy(form.content)

entryRefFirst(editing) == entries[1].id
\* doc(db, `.../entries`, editingEntry.id)
entryRef(editing) == editing[1].id

cleanTagsNoFilter(tags) == [i \in 1..Len(tags) |-> trim(tags[i])]
\* formEntry.tags.map(tag => tag.trim()).filter(tag => tag !== '')
cleanTags(tags) ==
  SelectSeq([i \in 1..Len(tags) |-> trim(tags[i])], LAMBDA t : t # Str0)

entryDataOf(form, uid) ==
  mergeFields(form,
    [author |-> uid, authorName |-> "You", tags |-> cleanTags(form.tags)])

\* remoteOk: the remote call succeeds; newId: the id addDoc gives a new document
handleSaveEntry(remoteOk, newId) ==
  /\ UNCHANGED << authVars, lifeVars, memVars, viewVars, asyncVars >>
  /\ UNCHANGED << remoteTimelineEvents, remoteAiQuestions, remotePhotoRequests >>
  /\ IF ~ready THEN
       /\ showUserFeedback(MsgNotReady, "error")
       /\ lastCalls' = << >>
       /\ UNCHANGED << storeVars, formVars >>
     ELSE IF titleMissing(formEntry) THEN
       /\ showUserFeedback(MsgEmpty, "error")
       /\ lastCalls' = << >>
       /\ UNCHANGED << storeVars, formVars >>
     ELSE IF editingEntry # << >> THEN
       LET id == entryRef(editingEntry)
           coll == remoteEntries[userId]
       IN /\ lastCalls' = << call("updateDoc", "entries", userId, id) >>
          /\ IF remoteOk /\ id \in DOMAIN coll
               THEN /\ remoteEntries' =
                         [remoteEntries EXCEPT ![userId][id] =
                            mergeFields(coll[id], entryDataOf(formEntry, userId))]
                    /\ showUserFeedback(MsgUpdated, "success")
                    /\ showNewEntry' = FALSE
                    /\ editingEntry' = << >>
                    /\ UNCHANGED formEntry
               ELSE /\ showUserFeedback(MsgSaveFailed, "error")
                    /\ UNCHANGED << storeVars, formVars >>
     ELSE
       LET coll == remoteEntries[userId]
       IN /\ lastCalls' = << call("addDoc", "entries", userId, 0) >>
          /\ remoteOk => newId \notin DOMAIN coll
          /\ IF remoteOk
               THEN /\ remoteEntries' =
                         [remoteEntries EXCEPT ![userId] =
                            [i \in (DOMAIN coll) \cup {newId} |->
                               IF i = newId THEN entryDataOf(formEntry, userId)
                               ELSE coll[i]]]
                    /\ showUserFeedback(MsgAdded, "success")
                    /\ showNewEntry' = FALSE
                    /\ editingEntry' = << >>
                    /\ UNCHANGED formEntry
               ELSE /\ showUserFeedback(MsgSaveFailed, "error")
                    /\ UNCHANGED << storeVars, formVars >>

\* ---------------------------------------------------------------------------
\* handleDeleteEntry (lines 242-257)
\* ---------------------------------------------------------------------------
confirmAcceptedAlways(answer) == TRUE
\* window.confirm("Are you sure ...") with the user's answer
confirmAccepted(answer) == answer

\* deleteDoc(ref): the document is gone afterwards, whether it existed or not
withoutDoc(coll, id) == [i \in (DOMAIN coll) \ {id} |-> coll[i]]

\* answer: what the user answers to the confirmation; remoteOk: deleteDoc succeeds
handleDeleteEntry(entryId, answer, remoteOk) ==
  /\ UNCHANGED << authVars, lifeVars, memVars, viewVars, formVars, asyncVars >>
  /\ UNCHANGED << remoteTimelineEvents, remoteAiQuestions, remotePhotoRequests >>
  /\ IF ~ready THEN
       /\ showUserFeedback(MsgNotReady, "error")
       /\ lastCalls' = << >>
       /\ UNCHANGED remoteEntries
     ELSE IF ~confirmAccepted(answer) THEN
       /\ lastCalls' = << >>
       /\ UNCHANGED << remoteEntries, toastVars >>
     ELSE
       /\ lastCalls' = << call("deleteDoc", "entries", userId, entryId) >>
       /\ IF remoteOk
            THEN /\ remoteEntries' =
                      [remoteEntries EXCEPT ![userId] = withoutDoc(@, entryId)]
                 /\ showUserFeedback(MsgDeleted, "success")
            ELSE /\ showUserFeedback(MsgDeleteFailed, "error")
                 /\ UNCHANGED remoteEntries

\* ---------------------------------------------------------------------------
\* AI questions (lines 262-322)
\* ---------------------------------------------------------------------------
\* `q${Date.now()}a`, `q${Date.now()}b`: the clock reading t and the suffix
questionId(t, suffix) == << "q", t, suffix >>

\* The order of the documents q<t><suffix> in a snapshot of the collection
questionIdBefore(x, y) ==
  x[2] < y[2] \/ (x[2] = y[2] /\ x[3] = "a" /\ y[3] = "b")

RECURSIVE questionDocsIn(_, _)
questionDocsIn(coll, ids) ==
  IF ids = {} THEN << >>
  ELSE LET i == CHOOSE x \in ids : \A y \in ids \ {x} : questionIdBefore(x, y)
       IN << mergeFields([id |-> i], coll[i]) >> \o questionDocsIn(coll, ids \ {i})

questionDocs(coll) == questionDocsIn(coll, DOMAIN coll)

\* setDoc(ref, data) without merge: the document is created or replaced whole
setDoc(coll, id, data) ==
  [i \in (DOMAIN coll) \cup {id} |-> IF i = id THEN data ELSE coll[i]]

answerMissingNoTrim(answerContent) == falsy(answerContent)
\* !answerContent.trim()
answerMissing(answerContent) == falsy(trim(answerContent))

answerUpdateNoAnswer(answerContent) == [answered |-> TRUE]
\* { answered: true, answer: answerContent, answeredAt: new Date() }
answerUpdate(answerContent) == [answered |-> TRUE, answer |-> answerContent]

handleAnswerAIQuestion(questionId0, answerContent, remoteOk) ==
  /\ UNCHANGED << authVars, lifeVars, memVars, viewVars, formVars, asyncVars >>
  /\ UNCHANGED << remoteEntries, remoteTimelineEvents, remotePhotoRequests >>
  /\ IF ~ready THEN
       /\ showUserFeedback(MsgNotReady, "error")
       /\ lastCalls' = << >>
       /\ UNCHANGED remoteAiQuestions
     ELSE IF answerMissing(answerContent) THEN
       /\ showUserFeedback(MsgNoAnswer, "error")
       /\ lastCalls' = << >>
       /\ UNCHANGED remoteAiQuestions
     ELSE
       LET coll == remoteAiQuestions[userId]
       IN /\ lastCalls' = << call("updateDoc", "aiQuestions", userId, questionId0) >>
          /\ IF remoteOk /\ questionId0 \in DOMAIN coll
               THEN /\ remoteAiQuestions' =
                         [remoteAiQuestions EXCEPT ![userId][questionId0] =
                            mergeFields(coll[questionId0], answerUpdate(answerContent))]
                    /\ showUserFeedback(MsgAnswered, "success")
               ELSE /\ showUserFeedback(MsgAnswerFailed, "error")
                    /\ UNCHANGED remoteAiQuestions

secondSuffixSame == "a"
\* The suffix of the second question's id
secondSuffix == "b"

questionTextFixed(template, year) == [text |-> template, year |-> 2015]
\* `What were your ... during ${year}?`: the fixed text and the year put in it
questionText(template, year) == [text |-> template, year |-> year]

\* The array newQuestions; t1 and t2 are the two readings of Date.now()
newQuestions(year, t1, t2) ==
  << [id |-> questionId(t1, "a"),
      question |-> questionText("What were your biggest aspirations or dreams during", year),
      relatedEntry |-> Null, type |-> "reflection", answered |-> FALSE],
     [id |-> questionId(t2, secondSuffix),
      question |-> questionText("Who were your closest friends or mentors in", year),
      relatedEntry |-> Null, type |-> "people", answered |-> FALSE] >>

\* The setDoc calls the loop issues when n of them succeed: it stops at the
\* first that fails
setDocCalls(n) == IF n < 2 THEN n + 1 ELSE 2

\* The collection after the first n questions of qs were written, in order
RECURSIVE written(_, _, _)
written(coll, qs, n) ==
  IF n = 0 THEN coll
  ELSE setDoc(written(coll, qs, n - 1), qs[n].id, qs[n])

\* later: the clock moved on between the two readings of Date.now();
\* okCount: the number of setDoc calls that succeed before one fails (2: all)
generateAIQuestionsForYear(year, later, okCount) ==
  /\ UNCHANGED << authVars, lifeVars, memVars, viewVars, formVars, pending >>
  /\ UNCHANGED << remoteEntries, remoteTimelineEvents, remotePhotoRequests >>
  /\ IF ~ready THEN
       /\ showUserFeedback(MsgNotReady, "error")
       /\ lastCalls' = << >>
       /\ UNCHANGED << remoteAiQuestions, now >>
     ELSE
       /\ later => now < MaxTime
       /\ now' = IF later THEN now + 1 ELSE now
       /\ LET qs == newQuestions(year, now, now')
          IN /\ lastCalls' =
                  [k \in 1..setDocCalls(okCount) |->
                     call("setDoc", "aiQuestions", userId, qs[k].id)]
             /\ remoteAiQuestions' =
                  [remoteAiQuestions EXCEPT ![userId] = written(@, qs, okCount)]
       /\ IF okCount = 2
            THEN showUserFeedback(MsgGenerated, "success")
            ELSE showUserFeedback(MsgGenerateFailed, "error")

onSnapshotAiQuestions ==
  /\ mounted
  /\ \E k \in 1..Len(subscriptions) :
       aiQuestions' = questionDocs(remoteAiQuestions[subscriptions[k]])
  /\ lastCalls' = << >>
  /\ UNCHANGED << entries, timelineEvents, photoRequests >>
  /\ UNCHANGED << authVars, lifeVars, storeVars, viewVars, formVars, toastVars, asyncVars >>

\* ---------------------------------------------------------------------------
\* Timeline events (lines 155, 887-888)
\* ---------------------------------------------------------------------------
onSnapshotTimelineEvents ==
  /\ mounted
  /\ \E k \in 1..Len(subscriptions) :
       timelineEvents' = snapshotDocs(remoteTimelineEvents[subscriptions[k]])
  /\ lastCalls' = << >>
  /\ UNCHANGED << entries, aiQuestions, photoRequests >>
  /\ UNCHANGED << authVars, lifeVars, storeVars, viewVars, formVars, toastVars, asyncVars >>

compareByYearAscending(a, b) == a.year - b.year
\* (a, b) => b.year - a.year
compareByYear(a, b) == b.year - a.year

RECURSIVE insertByYear(_, _)
insertByYear(sorted, x) ==
  IF sorted = << >> THEN << x >>
  ELSE IF compareByYear(x, Head(sorted)) < 0 THEN << x >> \o sorted
  ELSE << Head(sorted) >> \o insertByYear(Tail(sorted), x)

\* Array.prototype.sort with this comparator, which is consistent on numbers:
\* a stable sort
RECURSIVE sortByYear(_)
sortByYear(list) ==
  IF list = << >> THEN << >>
  ELSE insertByYear(sortByYear(SubSeq(list, 1, Len(list) - 1)), list[Len(list)])

\* The events the timeline view shows, in the order it shows them
timelineView(list) == sortByYear(list)

\* The timeline view is rendered with a list that is not empty: sort() sorts
\* the array of the state in place and the view maps the sorted array
renderTimeline ==
  /\ mounted /\ ~loading /\ error = Null
  /\ Len(timelineEvents) > 0
  /\ timelineEvents' = timelineView(timelineEvents)
  /\ lastCalls' = << >>
  /\ UNCHANGED << entries, aiQuestions, photoRequests >>
  /\ UNCHANGED << authVars, lifeVars, storeVars, viewVars, formVars, toastVars, asyncVars >>

\* ---------------------------------------------------------------------------
\* Photo requests (lines 327-347, 1109-1121)
\* ---------------------------------------------------------------------------
\* prompt() gives null when the dialog is cancelled: a value that is no text
PromptCancelled == << Null >>

\* The document addDoc is given: the three arguments, status and responses
newPhotoRequest(location, timeframe, description) ==
  [location |-> location, timeframe |-> timeframe, description |-> description,
   status |-> "pending", responses |-> 0]

requestHistoricalPhotos(location, timeframe, description, remoteOk, newId) ==
  /\ UNCHANGED << authVars, lifeVars, memVars, viewVars, formVars, asyncVars >>
  /\ UNCHANGED << remoteEntries, remoteTimelineEvents, remoteAiQuestions >>
  /\ IF ~ready THEN
       /\ showUserFeedback(MsgNotReady, "error")
       /\ lastCalls' = << >>
       /\ UNCHANGED remotePhotoRequests
     ELSE
       LET coll == remotePhotoRequests[userId]
       IN /\ lastCalls' = << call("addDoc", "photoRequests", userId, 0) >>
          /\ remoteOk => newId \notin DOMAIN coll
          /\ IF remoteOk
               THEN /\ remotePhotoRequests' =
                         [remotePhotoRequests EXCEPT ![userId] =
                            setDoc(coll, newId,
                              newPhotoRequest(location, timeframe, description))]
                    /\ showUserFeedback(MsgPhotoSubmitted, "success")
               ELSE /\ showUserFeedback(MsgPhotoFailed, "error")
                    /\ UNCHANGED remotePhotoRequests

onSnapshotPhotoRequests ==
  /\ mounted
  /\ \E k \in 1..Len(subscriptions) :
       photoRequests' = snapshotDocs(remotePhotoRequests[subscriptions[k]])
  /\ lastCalls' = << >>
  /\ UNCHANGED << entries, timelineEvents, aiQuestions >>
  /\ UNCHANGED << authVars, lifeVars, storeVars, viewVars, formVars, toastVars, asyncVars >>

\* { ...pr, status: 'found', responses: pr.responses + 1 }
foundRequest(pr) == [pr EXCEPT !.status = "found", !.responses = @ + 1]

updatedPhotoRequestsAll(list, requestId) ==
  [k \in 1..Len(list) |-> foundRequest(list[k])]
\* photoRequests.map(pr => pr.id === request.id ? { ... } : pr)
updatedPhotoRequests(list, requestId) ==
  [k \in 1..Len(list) |->
     IF list[k].id = requestId THEN foundRequest(list[k]) ELSE list[k]]

simulateCallsUpdate(requestId) ==
  << call("updateDoc", "photoRequests", userId, requestId) >>
\* The remote calls of the onClick: none, it calls setPhotoRequests and
\* showUserFeedback only
simulateCalls(requestId) == << >>

\* onClick of "Simulate Response", rendered for a listed request that is pending
simulateResponse(requestId) ==
  /\ \E k \in 1..Len(photoRequests) :
       photoRequests[k].id = requestId /\ photoRequests[k].status = "pending"
  /\ photoRequests' = updatedPhotoRequests(photoRequests, requestId)
  /\ showUserFeedback(MsgSimulated, "success")
  /\ lastCalls' = simulateCalls(requestId)
  /\ UNCHANGED << entries, timelineEvents, aiQuestions >>
  /\ UNCHANGED << authVars, lifeVars, storeVars, viewVars, formVars, asyncVars >>

\* ---------------------------------------------------------------------------
\* Collaborative comments (lines 350-403)
\* ---------------------------------------------------------------------------
removeAt(s, i) == SubSeq(s, 1, i - 1) \o SubSeq(s, i + 1, Len(s))

\* entryDoc.data().collaborativeEntries || []
commentsOf(docu) == docu.collaborativeEntries

newCollaborativeEntry(authorName, content) ==
  [id |-> now, author |-> authorName, content |-> content, likes |-> 0]

likeOne(comment) == [comment EXCEPT !.likes = comment.likes + 1]
\* currentCollaborativeEntries.map(comment => comment.id === commentId ? ... : comment)
likeMap(list, commentId) ==
  [k \in 1..Len(list) |->
     IF list[k].id = commentId THEN likeOne(list[k]) ELSE list[k]]

commentMissingNoTrim(content) == falsy(content)
\* !content.trim()
commentMissing(content) == falsy(trim(content))

\* handleAddCollaborativeComment up to the end of its await getDoc
addCommentRead(entryId, authorName, content, readOk) ==
  /\ UNCHANGED << authVars, lifeVars, storeVars, memVars, viewVars, formVars, now >>
  /\ IF ~ready THEN
       /\ showUserFeedback(MsgNotReady, "error")
       /\ lastCalls' = << >>
       /\ UNCHANGED pending
     ELSE IF commentMissing(content) THEN
       /\ showUserFeedback(MsgCommentEmpty, "error")
       /\ lastCalls' = << >>
       /\ UNCHANGED pending
     ELSE
       /\ lastCalls' = << call("getDoc", "entries", userId, entryId) >>
       /\ IF ~readOk THEN
            /\ showUserFeedback(MsgCommentFailed, "error")
            /\ UNCHANGED pending
          ELSE IF entryId \notin DOMAIN remoteEntries[userId] THEN
            /\ UNCHANGED << pending, toastVars >>
          ELSE
            /\ Len(pending) < MaxPending
            /\ Len(commentsOf(remoteEntries[userId][entryId])) < MaxComments
            /\ pending' = Append(pending,
                 [kind |-> "add", uid |-> userId, entryId |-> entryId,
                  read |-> commentsOf(remoteEntries[userId][entryId]),
                  author |-> authorName, content |-> content, commentId |-> 0])
            /\ UNCHANGED toastVars

\* ... and from there on: the new list is built and written back
addCommentWrite(i, writeOk) ==
  /\ i \in 1..Len(pending)
  /\ pending[i].kind = "add"
  /\ LET p == pending[i]
         coll == remoteEntries[p.uid]
         list == Append(p.read, newCollaborativeEntry(p.author, p.content))
     IN /\ lastCalls' = << call("updateDoc", "entries", p.uid, p.entryId) >>
        /\ IF writeOk /\ p.entryId \in DOMAIN coll
             THEN /\ remoteEntries' =
                       [remoteEntries EXCEPT ![p.uid][p.entryId] =
                          mergeFields(coll[p.entryId], [collaborativeEntries |-> list])]
                  /\ showUserFeedback(MsgCommentAdded, "success")
             ELSE /\ showUserFeedback(MsgCommentFailed, "error")
                  /\ UNCHANGED storeVars
  /\ pending' = removeAt(pending, i)
  /\ UNCHANGED << remoteTimelineEvents, remoteAiQuestions, remotePhotoRequests >>
  /\ UNCHANGED << authVars, lifeVars, memVars, viewVars, formVars, now >>

\* handleLikeCollaborativeComment up to the end of its await getDoc
likeCommentRead(entryId, commentId, readOk) ==
  /\ UNCHANGED << authVars, lifeVars, storeVars, memVars, viewVars, formVars, now >>
  /\ IF ~ready THEN
       /\ showUserFeedback(MsgNotReady, "error")
       /\ lastCalls' = << >>
       /\ UNCHANGED pending
     ELSE
       /\ lastCalls' = << call("getDoc", "entries", userId, entryId) >>
       /\ IF ~readOk THEN
            /\ showUserFeedback(MsgLikeFailed, "error")
            /\ UNCHANGED pending
          ELSE IF entryId \notin DOMAIN remoteEntries[userId] THEN
            /\ UNCHANGED << pending, toastVars >>
          ELSE
            LET list == commentsOf(remoteEntries[userId][entryId])
            IN /\ Len(pending) < MaxPending
               /\ \A k \in 1..Len(list) : list[k].likes < MaxLikes
               /\ pending' = Append(pending,
                    [kind |-> "like", uid |-> userId, entryId |-> entryId,
                     read |-> list, author |-> "", content |-> Str0,
                     commentId |-> commentId])
               /\ UNCHANGED toastVars

likeCommentWrite(i, writeOk) ==
  /\ i \in 1..Len(pending)
  /\ pending[i].kind = "like"
  /\ LET p == pending[i]
         coll == remoteEntries[p.uid]
         list == likeMap(p.read, p.commentId)
     IN /\ lastCalls' = << call("updateDoc", "entries", p.uid, p.entryId) >>
        /\ IF writeOk /\ p.entryId \in DOMAIN coll
             THEN /\ remoteEntries' =
                       [remoteEntries EXCEPT ![p.uid][p.entryId] =
                          mergeFields(coll[p.entryId], [collaborativeEntries |-> list])]
                  /\ showUserFeedback(MsgLiked, "success")
             ELSE /\ showUserFeedback(MsgLikeFailed, "error")
                  /\ UNCHANGED storeVars
  /\ pending' = removeAt(pending, i)
  /\ UNCHANGED << remoteTimelineEvents, remoteAiQuestions, remotePhotoRequests >>
  /\ UNCHANGED << authVars, lifeVars, memVars, viewVars, formVars, now >>

\* ---------------------------------------------------------------------------
\* The derived view (lines 406-415, 735, 743)
\* ---------------------------------------------------------------------------
setSearchQuery(q) ==
  /\ searchQuery' = q
  /\ lastCalls' = << >>
  /\ UNCHANGED filterBy
  /\ UNCHANGED << authVars, lifeVars, storeVars, memVars, formVars, toastVars, asyncVars >>

setFilterBy(f) ==
  /\ filterBy' = f
  /\ lastCalls' = << >>
  /\ UNCHANGED searchQuery
  /\ UNCHANGED << authVars, lifeVars, storeVars, memVars, formVars, toastVars, asyncVars >>

\* new Date(s) for the values of a date input: "" is an Invalid Date, whose
\* time value is NaN; t counts days, 86400000 ms each
newDate(d) ==
  CASE d = "2015-06-01" -> [nan |-> FALSE, t |-> 16587]
    [] d = "2020-01-01" -> [nan |-> FALSE, t |-> 18262]
    [] OTHER -> [nan |-> TRUE, t |-> 0]

\* (a, b) => new Date(b.date) - new Date(a.date)
compareByDate(a, b) ==
  LET da == newDate(a.date)
      db0 == newDate(b.date)
  IN [nan |-> da.nan \/ db0.nan, t |-> db0.t - da.t]

\* SortCompare of Array.prototype.sort: a NaN from the comparator counts as +0
sortCompare(a, b) ==
  LET v == compareByDate(a, b)
  IN IF v.nan THEN 0 ELSE v.t

\* The comparator is a consistent comparison function for the elements of list
consistentOn(list) ==
  LET S == {list[k] : k \in 1..Len(list)}
  IN \A a, b, c \in S :
       /\ sortCompare(a, a) = 0
       /\ (sortCompare(a, b) = 0 /\ sortCompare(b, c) = 0) => sortCompare(a, c) = 0
       /\ (sortCompare(a, b) < 0 /\ sortCompare(b, c) < 0) => sortCompare(a, c) < 0
       /\ (sortCompare(a, b) > 0 /\ sortCompare(b, c) > 0) => sortCompare(a, c) > 0
       /\ (sortCompare(a, b) < 0) <=> (sortCompare(b, a) > 0)

RECURSIVE insertSorted(_, _)
insertSorted(sorted, x) ==
  IF sorted = << >> THEN << x >>
  ELSE IF sortCompare(x, Head(sorted)) < 0 THEN << x >> \o sorted
  ELSE << Head(sorted) >> \o insertSorted(Tail(sorted), x)

RECURSIVE stableSort(_)
stableSort(list) ==
  IF list = << >> THEN << >>
  ELSE insertSorted(stableSort(SubSeq(list, 1, Len(list) - 1)), list[Len(list)])

permutationsOf(list) ==
  LET n == Len(list)
      P == {p \in [1..n -> 1..n] : \A i, j \in 1..n : i # j => p[i] # p[j]}
  IN {[i \in 1..n |-> list[p[i]]] : p \in P}

\* Array.prototype.sort: a stable sort when the comparator is consistent,
\* an implementation-defined order otherwise
sortOutcomes(list) ==
  IF consistentOn(list) THEN {stableSort(list)} ELSE permutationsOf(list)

matchesSearchNoLocation(entry, q) ==
  LET lq == toLowerCase(q)
  IN \/ includes(toLowerCase(entry.title), lq)
     \/ includes(toLowerCase(entry.content), lq)
     \/ \E k \in 1..Len(entry.tags) : includes(toLowerCase(entry.tags[k]), lq)

matchesSearch(entry, q) ==
  LET lq == toLowerCase(q)
  IN \/ includes(toLowerCase(entry.title), lq)
     \/ includes(toLowerCase(entry.content), lq)
     \/ \E k \in 1..Len(entry.tags) : includes(toLowerCase(entry.tags[k]), lq)
     \/ includes(toLowerCase(entry.location), lq)

matchesFilterAny(entry, f) == TRUE
matchesFilter(entry, f) == f = "all" \/ entry.type = f

\* entries.filter(...), before the sort
filteredUnsorted(es, q, f) ==
  SelectSeq(es, LAMBDA e : matchesSearch(e, q) /\ matchesFilter(e, f))

\* The lists the expression filteredEntries can evaluate to
filteredEntries(es, q, f) == sortOutcomes(filteredUnsorted(es, q, f))

\* ---------------------------------------------------------------------------
\* Inputs
\* ---------------------------------------------------------------------------
TitleInputs == {Str0, StrSp, StrA}
ContentInputs == {Str0, StrA}
TagChars == {"a", " ", ","}
\* The tags field typed as "a,a": the same tag twice
DuplicateTagText == << "a", ",", "a" >>
\* Every text of at most MaxTagText characters typed into the tags field, and
\* the text with a tag twice
TagInputs ==
  (UNION {[1..n -> TagChars] : n \in 0..MaxTagText}) \cup {DuplicateTagText}
DateInputs == {"", "2015-06-01", Today}
CommentInputs == {Str0, StrSp, StrA}
CommentIds == 0..MaxTime
Queries == {Str0, << "p" >>, << "P" >>, << "p", "a" >>, << "a" >>, << "b" >>}
Filters == {"all", "personal", "event", "reflection"}

Years == {2015, 2020}
AnswerInputs == {Str0, StrSp, StrA}
QuestionIds == {questionId(t, x) : t \in 0..MaxTime, x \in {"a", "b"}}
RequestIds == 1..MaxRequests
\* What prompt() can give for a field of a photo request
PhotoTexts == {PromptCancelled, Str0, StrA}

\* The argument of openEntryModal: null, or an entry of the rendered list
entryArgs == {<< >>} \cup {<< entries[k] >> : k \in 1..Len(entries)}

\* ---------------------------------------------------------------------------
\* Spec: initialization, the entry form and handleSaveEntry
\* ---------------------------------------------------------------------------
Next ==
  \/ initFirebase
  \/ onAuthStateChangedUser("u1")
  \/ \E ok \in BOOLEAN : onAuthStateChangedNoUser(ok)
  \/ onSnapshotEntries
  \/ feedbackTimeout
  \/ \E e \in entryArgs : openEntryModal(e)
  \/ closeEntryModal
  \/ \E t \in TitleInputs : setFormField("title", t)
  \/ \E c \in ContentInputs : setFormField("content", c)
  \/ \E ok \in BOOLEAN, id \in EntryIds : handleSaveEntry(ok, id)

Spec == Init /\ [][Next]_vars

\* The state once initFirebase has run and the user is signed in
ReadyInit ==
  /\ configPresent = TRUE
  /\ db = TRUE
  /\ userId = "u1"
  /\ isAuthReady = TRUE
  /\ loading = FALSE
  /\ error = Null
  /\ mounted = TRUE
  /\ subscriptions = << "u1" >>
  /\ authListeners = 1
  /\ remoteEntries = [u \in Uids |-> << >>]
  /\ remoteTimelineEvents = [u \in Uids |-> << >>]
  /\ remoteAiQuestions = [u \in Uids |-> << >>]
  /\ remotePhotoRequests = [u \in Uids |-> << >>]
  /\ entries = << >>
  /\ timelineEvents = << >>
  /\ aiQuestions = << >>
  /\ photoRequests = << >>
  /\ searchQuery = Str0
  /\ filterBy = "all"
  /\ showNewEntry = FALSE
  /\ editingEntry = << >>
  /\ formEntry = emptyForm
  /\ showFeedback = FALSE
  /\ feedbackMessage = ""
  /\ feedbackType = "success"
  /\ timers = 0
  /\ now = 0
  /\ pending = << >>
  /\ lastCalls = << >>

\* ---------------------------------------------------------------------------
\* FormSpec: the tags field of a valid draft
\* ---------------------------------------------------------------------------
FormNext ==
  \/ onSnapshotEntries
  \/ feedbackTimeout
  \/ \E e \in entryArgs : openEntryModal(e)
  \/ setFormField("title", StrA)
  \/ setFormField("content", StrA)
  \/ \E t \in TagInputs : setTags(t)
  \/ \E ok \in BOOLEAN : handleSaveEntry(ok, 1)

FormSpec == ReadyInit /\ [][FormNext]_vars

\* ---------------------------------------------------------------------------
\* CommentSpec: comments and likes on saved entries
\* ---------------------------------------------------------------------------
\* An entry as handleSaveEntry writes it from a form with title and content set
savedEntry ==
  entryDataOf([emptyForm EXCEPT !.title = StrA, !.content = StrA], "u1")

\* The signed-in state with one saved entry, delivered to the component
CommentInit ==
  /\ configPresent = TRUE
  /\ db = TRUE
  /\ userId = "u1"
  /\ isAuthReady = TRUE
  /\ loading = FALSE
  /\ error = Null
  /\ mounted = TRUE
  /\ subscriptions = << "u1" >>
  /\ authListeners = 1
  /\ remoteEntries = [u \in Uids |-> IF u = "u1" THEN << savedEntry >> ELSE << >>]
  /\ remoteTimelineEvents = [u \in Uids |-> << >>]
  /\ remoteAiQuestions = [u \in Uids |-> << >>]
  /\ remotePhotoRequests = [u \in Uids |-> << >>]
  /\ entries = snapshotDocs(<< savedEntry >>)
  /\ timelineEvents = << >>
  /\ aiQuestions = << >>
  /\ photoRequests = << >>
  /\ searchQuery = Str0
  /\ filterBy = "all"
  /\ showNewEntry = FALSE
  /\ editingEntry = << >>
  /\ formEntry = emptyForm
  /\ showFeedback = FALSE
  /\ feedbackMessage = ""
  /\ feedbackType = "success"
  /\ timers = 0
  /\ now = 0
  /\ pending = << >>
  /\ lastCalls = << >>

\* A comment handler is started while fewer than CommentPending are suspended
CommentNext ==
  \/ onSnapshotEntries
  \/ feedbackTimeout
  \/ tick
  \/ \E k \in 1..Len(entries) : openEntryModal(<< entries[k] >>)
  \/ \E ok \in BOOLEAN : handleSaveEntry(ok, 1)
  \/ \E id \in EntryIds, c \in CommentInputs, ok \in BOOLEAN :
       Len(pending) < CommentPending /\ addCommentRead(id, "Guest User", c, ok)
  \/ \E i \in 1..MaxPending, ok \in BOOLEAN : addCommentWrite(i, ok)
  \/ \E id \in EntryIds, c \in CommentIds, ok \in BOOLEAN :
       Len(pending) < CommentPending /\ likeCommentRead(id, c, ok)
  \/ \E i \in 1..MaxPending, ok \in BOOLEAN : likeCommentWrite(i, ok)

CommentSpec == CommentInit /\ [][CommentNext]_vars

\* ---------------------------------------------------------------------------
\* ViewSpec: the derived view over the lists a snapshot can deliver
\* ---------------------------------------------------------------------------
viewEntry(title, content, date, location, tags, type) ==
  entryDataOf(
    [emptyForm EXCEPT !.title = title, !.content = content, !.date = date,
                      !.location = location, !.tags = tags, !.type = type],
    "u1")

\* Entries that differ in date and type: what the sort and the type filter see
DatedEntries ==
  {viewEntry(StrA, StrA, d, Str0, << >>, t) :
     d \in DateInputs, t \in {"personal", "event"}}

\* Entries that differ in their texts: what the search sees
TextEntries ==
  {viewEntry(ti, co, Today, lo, ta, ty) :
     ti \in {<< "P", "a" >>, << "a" >>},
     co \in {<< "a" >>, << "p" >>},
     lo \in {Str0, << "P" >>, << "a", "p" >>},
     ta \in {<< >>, << << "p" >> >>, << << "a" >>, << "P", "a" >> >>},
     ty \in {"personal", "event"}}

ViewCollections ==
  (UNION {[1..n -> DatedEntries] : n \in 0..MaxViewEntries})
    \cup [1..1 -> TextEntries]

ViewInit ==
  /\ configPresent = TRUE
  /\ db = TRUE
  /\ userId = "u1"
  /\ isAuthReady = TRUE
  /\ loading = FALSE
  /\ error = Null
  /\ mounted = TRUE
  /\ subscriptions = << "u1" >>
  /\ authListeners = 1
  /\ \E coll \in ViewCollections :
       /\ remoteEntries = [u \in Uids |-> IF u = "u1" THEN coll ELSE << >>]
       /\ entries = snapshotDocs(coll)
  /\ remoteTimelineEvents = [u \in Uids |-> << >>]
  /\ remoteAiQuestions = [u \in Uids |-> << >>]
  /\ remotePhotoRequests = [u \in Uids |-> << >>]
  /\ timelineEvents = << >>
  /\ aiQuestions = << >>
  /\ photoRequests = << >>
  /\ searchQuery = Str0
  /\ filterBy = "all"
  /\ showNewEntry = FALSE
  /\ editingEntry = << >>
  /\ formEntry = emptyForm
  /\ showFeedback = FALSE
  /\ feedbackMessage = ""
  /\ feedbackType = "success"
  /\ timers = 0
  /\ now = 0
  /\ pending = << >>
  /\ lastCalls = << >>

ViewNext ==
  \/ \E q \in Queries : setSearchQuery(q)
  \/ \E f \in Filters : setFilterBy(f)

ViewSpec == ViewInit /\ [][ViewNext]_vars

\* ---------------------------------------------------------------------------
\* SortSpec: entries saved with the dates the date field can hold, then listed
\* ---------------------------------------------------------------------------
SortNext ==
  \/ onSnapshotEntries
  \/ feedbackTimeout
  \/ openEntryModal(<< >>)
  \/ setFormField("title", StrA)
  \/ setFormField("content", StrA)
  \/ \E d \in DateInputs : setFormField("date", d)
  \/ \E id \in 1..MaxViewEntries : handleSaveEntry(TRUE, id)

SortSpec == ReadyInit /\ [][SortNext]_vars

\* ---------------------------------------------------------------------------
\* DeleteSpec: entries are saved, edited and deleted
\* ---------------------------------------------------------------------------
DeleteNext ==
  \/ onSnapshotEntries
  \/ feedbackTimeout
  \/ \E e \in entryArgs : openEntryModal(e)
  \/ setFormField("title", StrA)
  \/ setFormField("content", StrA)
  \/ \E ok \in BOOLEAN, id \in EntryIds : handleSaveEntry(ok, id)
  \/ \E id \in EntryIds, answer \in BOOLEAN, ok \in BOOLEAN :
       handleDeleteEntry(id, answer, ok)

DeleteSpec == ReadyInit /\ [][DeleteNext]_vars

\* ---------------------------------------------------------------------------
\* AiSpec: questions are generated for a year and answered
\* ---------------------------------------------------------------------------
AiNext ==
  \/ feedbackTimeout
  \/ tick
  \/ \E y \in Years, later \in BOOLEAN, n \in 0..2 :
       generateAIQuestionsForYear(y, later, n)
  \/ \E q \in QuestionIds, a \in AnswerInputs, ok \in BOOLEAN :
       handleAnswerAIQuestion(q, a, ok)

AiSpec == ReadyInit /\ [][AiNext]_vars

\* ---------------------------------------------------------------------------
\* PhotoSpec: photo requests are submitted, listed and given a simulated response
\* ---------------------------------------------------------------------------
PhotoNext ==
  \/ feedbackTimeout
  \/ onSnapshotPhotoRequests
  \/ \E l \in PhotoTexts, d \in {Str0, StrA}, ok \in BOOLEAN, id \in RequestIds :
       requestHistoricalPhotos(l, StrA, d, ok, id)
  \/ \E id \in RequestIds : simulateResponse(id)

PhotoSpec == ReadyInit /\ [][PhotoNext]_vars

\* ---------------------------------------------------------------------------
\* LifeSpec: the runs of the initialization effect, sign-in, change of the
\* user, the four subscriptions and unmount,
\* over collections that differ between the users
\* ---------------------------------------------------------------------------
otherEntry ==
  entryDataOf(
    [emptyForm EXCEPT !.title = StrA, !.content = StrA, !.privacy = "public"],
    "u2")

\* A document of the timelineEvents collection (year, events)
timelineEvent == [year |-> 2015, events |-> << "e" >>]

\* A document of the photoRequests collection as requestHistoricalPhotos writes it
photoRequest == newPhotoRequest(StrA, StrA, StrA)

LifeInit ==
  /\ configPresent \in BOOLEAN
  /\ db = FALSE
  /\ userId = Null
  /\ isAuthReady = FALSE
  /\ loading = TRUE
  /\ error = Null
  /\ mounted = TRUE
  /\ subscriptions = << >>
  /\ authListeners = 0
  /\ remoteEntries = [u \in Uids |-> IF u = "u1" THEN << savedEntry >> ELSE << otherEntry >>]
  /\ remoteTimelineEvents = [u \in Uids |-> IF u = "u1" THEN << timelineEvent >> ELSE << >>]
  /\ remoteAiQuestions = [u \in Uids |-> << >>]
  /\ remotePhotoRequests = [u \in Uids |-> IF u = "u1" THEN << >> ELSE << photoRequest >>]
  /\ entries = << >>
  /\ timelineEvents = << >>
  /\ aiQuestions = << >>
  /\ photoRequests = << >>
  /\ searchQuery = Str0
  /\ filterBy = "all"
  /\ showNewEntry = FALSE
  /\ editingEntry = << >>
  /\ formEntry = emptyForm
  /\ showFeedback = FALSE
  /\ feedbackMessage = ""
  /\ feedbackType = "success"
  /\ timers = 0
  /\ now = 0
  /\ pending = << >>
  /\ lastCalls = << >>

LifeNext ==
  \/ initFirebase
  \/ initFirebaseAgain
  \/ \E u \in Uids : onAuthStateChangedUser(u)
  \/ \E ok \in BOOLEAN : onAuthStateChangedNoUser(ok)
  \/ onSnapshotEntries
  \/ onSnapshotTimelineEvents
  \/ onSnapshotAiQuestions
  \/ onSnapshotPhotoRequests
  \/ feedbackTimeout
  \/ \E y \in Years : mounted /\ generateAIQuestionsForYear(y, FALSE, 2)
  \/ unmount

LifeSpec == LifeInit /\ [][LifeNext]_vars

\* ---------------------------------------------------------------------------
\* ScopeSpec: the handlers of a signed-in user whose id can change
\* ---------------------------------------------------------------------------
\* An entry of the first user saved with privacy "public"
publicEntry ==
  entryDataOf(
    [emptyForm EXCEPT !.title = StrA, !.content = StrA, !.privacy = "public"],
    "u1")

ScopeInit ==
  /\ configPresent = TRUE
  /\ db = TRUE
  /\ userId = "u1"
  /\ isAuthReady = TRUE
  /\ loading = FALSE
  /\ error = Null
  /\ mounted = TRUE
  /\ subscriptions = << "u1" >>
  /\ authListeners = 1
  /\ remoteEntries = [u \in Uids |-> IF u = "u1" THEN << publicEntry >> ELSE << otherEntry >>]
  /\ remoteTimelineEvents = [u \in Uids |-> << >>]
  /\ remoteAiQuestions = [u \in Uids |-> << >>]
  /\ remotePhotoRequests = [u \in Uids |-> << >>]
  /\ entries = snapshotDocs(<< publicEntry >>)
  /\ timelineEvents = << >>
  /\ aiQuestions = << >>
  /\ photoRequests = << >>
  /\ searchQuery = Str0
  /\ filterBy = "all"
  /\ showNewEntry = FALSE
  /\ editingEntry = << >>
  /\ formEntry = emptyForm
  /\ showFeedback = FALSE
  /\ feedbackMessage = ""
  /\ feedbackType = "success"
  /\ timers = 0
  /\ now = 0
  /\ pending = << >>
  /\ lastCalls = << >>

ScopeNext ==
  \/ \E u \in Uids : onAuthStateChangedUser(u)
  \/ feedbackTimeout
  \/ \E k \in 1..Len(entries) : openEntryModal(<< entries[k] >>)
  \/ handleSaveEntry(TRUE, 2)
  \/ \E answer \in BOOLEAN : handleDeleteEntry(2, answer, TRUE)
  \/ generateAIQuestionsForYear(2015, FALSE, 2)
  \/ requestHistoricalPhotos(StrA, StrA, StrA, TRUE, 1)
  \/ Len(pending) < CommentPending /\ addCommentRead(1, "Guest User", StrA, TRUE)
  \/ \E ok \in BOOLEAN : addCommentWrite(1, ok)

ScopeSpec == ScopeInit /\ [][ScopeNext]_vars

\* ---------------------------------------------------------------------------
\* RaceSpec: several addComment calls on one entry, suspended at the same
\* time within one reading of the clock; the comments differ in their content
\* ---------------------------------------------------------------------------
RaceComments == {StrA, << "b" >>}

RaceNext ==
  \/ onSnapshotEntries
  \/ feedbackTimeout
  \/ \E c \in RaceComments :
       Len(pending) < MaxPending /\ addCommentRead(1, "Guest User", c, TRUE)
  \/ \E i \in 1..MaxPending : addCommentWrite(i, TRUE)

RaceSpec == CommentInit /\ [][RaceNext]_vars

\* ---------------------------------------------------------------------------
\* TimelineSpec: the timeline view over the lists a snapshot can deliver
\* ---------------------------------------------------------------------------
\* Documents of the timelineEvents collection: a year and its events
TimelineDocs == {[year |-> y, events |-> e] : y \in Years, e \in {<< >>, << "e" >>}}

TimelineCollections == UNION {[1..n -> TimelineDocs] : n \in 0..MaxTimelineEvents}

TimelineInit ==
  /\ configPresent = TRUE
  /\ db = TRUE
  /\ userId = "u1"
  /\ isAuthReady = TRUE
  /\ loading = FALSE
  /\ error = Null
  /\ mounted = TRUE
  /\ subscriptions = << "u1" >>
  /\ authListeners = 1
  /\ remoteEntries = [u \in Uids |-> << >>]
  /\ \E coll \in TimelineCollections :
       remoteTimelineEvents = [u \in Uids |-> IF u = "u1" THEN coll ELSE << >>]
  /\ remoteAiQuestions = [u \in Uids |-> << >>]
  /\ remotePhotoRequests = [u \in Uids |-> << >>]
  /\ entries = << >>
  /\ timelineEvents = << >>
  /\ aiQuestions = << >>
  /\ photoRequests = << >>
  /\ searchQuery = Str0
  /\ filterBy = "all"
  /\ showNewEntry = FALSE
  /\ editingEntry = << >>
  /\ formEntry = emptyForm
  /\ showFeedback = FALSE
  /\ feedbackMessage = ""
  /\ feedbackType = "success"
  /\ timers = 0
  /\ now = 0
  /\ pending = << >>
  /\ lastCalls = << >>

\* "Remember more" of a shown event calls generateAIQuestionsForYear with its year
TimelineNext ==
  \/ onSnapshotTimelineEvents
  \/ renderTimeline
  \/ feedbackTimeout
  \/ \E k \in 1..Len(timelineEvents) :
       /\ timelineEvents[k].events # << >>
       /\ generateAIQuestionsForYear(timelineEvents[k].year, FALSE, 2)

TimelineSpec == TimelineInit /\ [][TimelineNext]_vars

\* ---------------------------------------------------------------------------
\* BootSpec: initialization with and without a configuration, sign-in, and
\* the handlers called before and after the store is ready
\* ---------------------------------------------------------------------------
\* A call of one of the seven handlers that talk to the store
handlerCalled ==
  \/ handleSaveEntry(TRUE, 2)
  \/ \E answer \in BOOLEAN : handleDeleteEntry(2, answer, TRUE)
  \/ \E a \in {Str0, StrA} : handleAnswerAIQuestion(questionId(0, "a"), a, TRUE)
  \/ generateAIQuestionsForYear(2015, FALSE, 2)
  \/ requestHistoricalPhotos(StrA, StrA, StrA, TRUE, 1)
  \/ \E c \in {Str0, StrA} :
       pending = << >> /\ addCommentRead(1, "Guest User", c, TRUE)
  \/ pending = << >> /\ likeCommentRead(1, 0, TRUE)

BootNext ==
  \/ initFirebase
  \/ initFirebaseAgain
  \/ onAuthStateChangedUser("u1")
  \/ \E ok \in BOOLEAN : onAuthStateChangedNoUser(ok)
  \/ feedbackTimeout
  \/ handleSaveEntry(TRUE, 2)
  \/ \E answer \in BOOLEAN : handleDeleteEntry(2, answer, TRUE)
  \/ \E a \in {Str0, StrA} : handleAnswerAIQuestion(questionId(0, "a"), a, TRUE)
  \/ generateAIQuestionsForYear(2015, FALSE, 2)
  \/ requestHistoricalPhotos(StrA, StrA, StrA, TRUE, 1)
  \/ \E c \in {Str0, StrA} :
       pending = << >> /\ addCommentRead(1, "Guest User", c, TRUE)
  \/ pending = << >> /\ likeCommentRead(1, 0, TRUE)
  \/ addCommentWrite(1, TRUE)
  \/ likeCommentWrite(1, TRUE)

BootSpec == LifeInit /\ [][BootNext]_vars

\* ---------------------------------------------------------------------------
\* Properties
\* ---------------------------------------------------------------------------
isBlank(s) == \A k \in 1..Len(s) : s[k] = " "

saveStep == \E ok \in BOOLEAN, id \in EntryIds : handleSaveEntry(ok, id)

\* C1: a save with an empty title or an empty content issues no remote call,
\* leaves the store, the modal, the form and the entry being edited as they
\* were, and ends with an error toast: the validation error once the store
\* handle and the user id are set.
C1_EmptySaveRejected ==
  [][(saveStep /\ (formEntry.title = Str0 \/ formEntry.content = Str0))
       => /\ lastCalls' = << >>
          /\ remoteEntries' = remoteEntries
          /\ showNewEntry' = showNewEntry
          /\ formEntry' = formEntry
          /\ editingEntry' = editingEntry
          /\ showFeedback' /\ feedbackType' = "error"
          /\ ready => feedbackMessage' = MsgEmpty]_vars

\* An edit whose content was emptied has been rejected: the modal is still
\* open on the entry and no call was made
C1_Witness ==
  /\ showFeedback /\ feedbackMessage = MsgEmpty
  /\ lastCalls = << >>
  /\ showNewEntry /\ editingEntry # << >>
  /\ formEntry.title # Str0 /\ formEntry.content = Str0

\* C2: a save whose title or content is blank (empty or only whitespace) is
\* rejected with the validation error and issues no remote call.
C2_BlankSaveRejected ==
  [][(saveStep /\ ready /\ (isBlank(formEntry.title) \/ isBlank(formEntry.content)))
       => /\ lastCalls' = << >>
          /\ remoteEntries' = remoteEntries
          /\ feedbackMessage' = MsgEmpty]_vars

otherDocsKept(uid, id) ==
  \A u \in Uids : \A i \in DOMAIN remoteEntries[u] :
    (u # uid \/ i # id) =>
      (i \in DOMAIN remoteEntries'[u] /\ remoteEntries'[u][i] = remoteEntries[u][i])

\* C3: a valid save while an entry is being edited issues exactly one update,
\* against that entry's document id, and changes no other document; a valid
\* save with no entry being edited issues exactly one create and changes no
\* existing document.
C3_SaveTargetsOneDocument ==
  [][(saveStep /\ ready /\ formEntry.title # Str0 /\ formEntry.content # Str0)
       => IF editingEntry # << >>
            THEN /\ lastCalls' =
                      << call("updateDoc", "entries", userId, editingEntry[1].id) >>
                 /\ otherDocsKept(userId, editingEntry[1].id)
                 /\ \A u \in Uids : DOMAIN remoteEntries'[u] = DOMAIN remoteEntries[u]
            ELSE /\ lastCalls' = << call("addDoc", "entries", userId, 0) >>
                 /\ otherDocsKept(userId, 0)
                 /\ Cardinality((DOMAIN remoteEntries'[userId])
                                  \ (DOMAIN remoteEntries[userId])) <= 1
                 /\ feedbackMessage' = MsgAdded =>
                      Cardinality((DOMAIN remoteEntries'[userId])
                                    \ (DOMAIN remoteEntries[userId])) = 1]_vars

\* The second of two different documents has been updated by an edit
C3_Witness ==
  /\ lastCalls = << call("updateDoc", "entries", "u1", 2) >>
  /\ showFeedback /\ feedbackMessage = MsgUpdated
  /\ DOMAIN remoteEntries["u1"] = {1, 2}
  /\ remoteEntries["u1"][1] # remoteEntries["u1"][2]

storedEntries ==
  UNION {{remoteEntries[u][i] : i \in DOMAIN remoteEntries[u]} : u \in Uids}

\* C10: every entry document written by save has a tags list in which each tag
\* is free of surrounding whitespace and no tag is blank.
C10_StoredTagsClean ==
  \A e \in storedEntries : \A k \in 1..Len(e.tags) :
    LET t == e.tags[k]
    IN /\ ~isBlank(t)
       /\ t[1] # " "
       /\ t[Len(t)] # " "

\* A draft whose tags were typed as " a" or ", " has been saved with clean tags
C10_Witness ==
  /\ showFeedback /\ feedbackMessage \in {MsgAdded, MsgUpdated}
  /\ \/ formEntry.tags = << << " ", "a" >> >>
     \/ formEntry.tags = << Str0, StrSp >>
  /\ \E e \in storedEntries : e.tags = cleanTags(formEntry.tags)

\* C11: every entry document written by save has a tags list without a
\* duplicate tag.
C11_StoredTagsDistinct ==
  \A e \in storedEntries : \A i, j \in 1..Len(e.tags) :
    i # j => e.tags[i] # e.tags[j]

hasComment(list, c) ==
  \E k \in 1..Len(list) :
    list[k].id = c.id /\ list[k].author = c.author /\ list[k].content = c.content

\* C4: a comment present in an entry's stored collaborativeEntries list is
\* still present in it after every step, as long as the entry is not deleted.
C4_CommentsNeverLost ==
  [][\A u \in Uids : \A i \in (DOMAIN remoteEntries[u]) \cap (DOMAIN remoteEntries'[u]) :
       LET old == remoteEntries[u][i].collaborativeEntries
           new == remoteEntries'[u][i].collaborativeEntries
       IN \A k \in 1..Len(old) : hasComment(new, old[k])]_vars

likedOnly(old, new, k) ==
  /\ new[k] = [old[k] EXCEPT !.likes = old[k].likes + 1]
  /\ \A j \in 1..Len(old) : j # k => new[j] = old[j]

\* C5: likeComment(entryId, commentId) writes back the list it read with the
\* likes of the one comment that has id commentId increased by exactly 1 and
\* every other comment unchanged.
C5_LikeChangesOneComment ==
  [][\A i \in 1..MaxPending :
       (likeCommentWrite(i, TRUE) /\ feedbackMessage' = MsgLiked) =>
         LET p == pending[i]
             old == p.read
             new == remoteEntries'[p.uid][p.entryId].collaborativeEntries
         IN /\ Len(new) = Len(old)
            /\ IF \E k \in 1..Len(old) : old[k].id = p.commentId
                 THEN \E k \in 1..Len(old) :
                        old[k].id = p.commentId /\ likedOnly(old, new, k)
                 ELSE new = old]_vars

\* C6: addComment with blank content issues no remote read and no remote
\* write, leaves the stored comment lists and the suspended handlers as they
\* were, and ends with an error toast: the validation error once the store
\* handle and the user id are set.
C6_BlankCommentRejected ==
  [][\A id \in EntryIds, c \in CommentInputs, ok \in BOOLEAN :
       (isBlank(c) /\ addCommentRead(id, "Guest User", c, ok)) =>
         /\ lastCalls' = << >>
         /\ remoteEntries' = remoteEntries
         /\ pending' = pending
         /\ showFeedback' /\ feedbackType' = "error"
         /\ ready => feedbackMessage' = MsgCommentEmpty]_vars

\* A blank comment has been rejected on an entry that already has a comment
C6_Witness ==
  /\ showFeedback /\ feedbackMessage = MsgCommentEmpty
  /\ lastCalls = << >>
  /\ \E e \in storedEntries : Len(e.collaborativeEntries) > 0

inSeq(x, list) == \E k \in 1..Len(list) : list[k] = x

\* v holds exactly the elements of list, each once
isPermutation(v, list) ==
  /\ Len(v) = Len(list)
  /\ \A x \in {list[k] : k \in 1..Len(list)} :
       Cardinality({k \in 1..Len(v) : v[k] = x})
         = Cardinality({k \in 1..Len(list) : list[k] = x})

\* No entry comes before an entry of a later date
dateDescending(v) ==
  \A i, j \in 1..Len(v) :
    (i < j /\ ~newDate(v[i].date).nan /\ ~newDate(v[j].date).nan)
      => newDate(v[i].date).t >= newDate(v[j].date).t

\* C7: with an empty query and the type filter "all", the derived view holds
\* exactly the entries of the list, ordered by date descending.
C7_ViewSortedByDate ==
  (searchQuery = Str0 /\ filterBy = "all") =>
    \A v \in filteredEntries(entries, searchQuery, filterBy) :
      isPermutation(v, entries) /\ dateDescending(v)

sameLetter(a, b) ==
  a = b \/ {a, b} = {"a", "A"} \/ {a, b} = {"p", "P"}

\* q, compared case-insensitively, is a substring of s
ciSubstring(q, s) ==
  \E i \in 0..(Len(s) - Len(q)) : \A j \in 1..Len(q) : sameLetter(s[i + j], q[j])

ciMatch(q, e) ==
  \/ ciSubstring(q, e.title)
  \/ ciSubstring(q, e.content)
  \/ \E k \in 1..Len(e.tags) : ciSubstring(q, e.tags[k])
  \/ ciSubstring(q, e.location)

\* C8: with the type filter "all", an entry is in the derived view if and only
\* if the query, compared case-insensitively, is a substring of its title, of
\* its content, of one of its tags or of its location.
C8_ViewMatchesQuery ==
  filterBy = "all" =>
    \A v \in filteredEntries(entries, searchQuery, filterBy) :
      \A k \in 1..Len(entries) :
        inSeq(entries[k], v) <=> ciMatch(searchQuery, entries[k])

\* The query "p" finds an entry through its location "P" alone
C8_Witness ==
  /\ filterBy = "all" /\ searchQuery = << "p" >>
  /\ Len(entries) = 1
  /\ entries[1].location = << "P" >>
  /\ entries[1].title = << "a" >> /\ entries[1].content = << "a" >>
  /\ entries[1].tags = << >>
  /\ \A v \in filteredEntries(entries, searchQuery, filterBy) : inSeq(entries[1], v)

\* C9: with a type filter other than "all", every entry of the derived view
\* matches the query and has that type; with "all", no entry that matches the
\* query is left out whatever its type.
C9_ViewMatchesType ==
  \A v \in filteredEntries(entries, searchQuery, filterBy) :
    /\ filterBy # "all" =>
         \A k \in 1..Len(v) : ciMatch(searchQuery, v[k]) /\ v[k].type = filterBy
    /\ filterBy = "all" =>
         \A k \in 1..Len(entries) :
           ciMatch(searchQuery, entries[k]) => inSeq(entries[k], v)

\* The filter "event" leaves out a personal entry that matches the query
C9_Witness ==
  /\ filterBy = "event" /\ searchQuery = << "a" >>
  /\ Len(entries) = 2
  /\ entries[1].type = "personal" /\ entries[2].type = "event"
  /\ ciMatch(searchQuery, entries[1])
  /\ \A v \in filteredEntries(entries, searchQuery, filterBy) :
       ~inSeq(entries[1], v) /\ inSeq(entries[2], v)

\* C12: delete(id) issues a remote delete only when the confirmation was
\* accepted; when it is declined no remote call is made and the entries
\* collection is unchanged; when it is accepted (store ready) exactly one delete
\* is issued, against the document with that id, no other document changes and,
\* when the delete succeeds, the document with that id is gone.
C12_DeleteAfterConfirmation ==
  [][\A id \in EntryIds, answer \in BOOLEAN, ok \in BOOLEAN :
       handleDeleteEntry(id, answer, ok) =>
         /\ ~answer => (lastCalls' = << >> /\ remoteEntries' = remoteEntries)
         /\ (answer /\ ready) =>
              /\ lastCalls' = << call("deleteDoc", "entries", userId, id) >>
              /\ otherDocsKept(userId, id)
              /\ \A u \in Uids : DOMAIN remoteEntries'[u] \subseteq DOMAIN remoteEntries[u]
              /\ feedbackMessage' = MsgDeleted => id \notin DOMAIN remoteEntries'[userId]]_vars

\* The first of two stored entries has been deleted and the second is kept
C12_Witness ==
  /\ lastCalls = << call("deleteDoc", "entries", "u1", 1) >>
  /\ showFeedback /\ feedbackMessage = MsgDeleted
  /\ DOMAIN remoteEntries["u1"] = {2}

\* C13: each in-memory list (entries, timelineEvents, aiQuestions,
\* photoRequests) changes only in a step that delivers a snapshot of the
\* matching collection; no other step changes it.
C13_ListsChangeBySnapshotOnly ==
  [][/\ entries' # entries => onSnapshotEntries
     /\ timelineEvents' # timelineEvents => onSnapshotTimelineEvents
     /\ aiQuestions' # aiQuestions => onSnapshotAiQuestions
     /\ photoRequests' # photoRequests => onSnapshotPhotoRequests]_vars

failureMessages ==
  {MsgSaveFailed, MsgDeleteFailed, MsgAnswerFailed, MsgGenerateFailed,
   MsgPhotoFailed, MsgCommentFailed, MsgLikeFailed}

\* C14: a step in which a remote call of an action failed (the step issued a
\* call and ends with the action's failure toast) leaves every remote
\* collection and every in-memory list as it was.
C14_FailedActionCommitsNothing ==
  [][(lastCalls' # << >> /\ showFeedback' /\ feedbackMessage' \in failureMessages)
       => (UNCHANGED storeVars /\ UNCHANGED memVars)]_vars

storedQuestions ==
  UNION {{remoteAiQuestions[u][i] : i \in DOMAIN remoteAiQuestions[u]} : u \in Uids}

\* C17: answer(questionId, content) with blank content (empty or only
\* whitespace) issues no remote call, leaves the aiQuestions collection and the
\* in-memory list as they were, so that a question with answered = false keeps
\* it, and ends with an error toast: the validation error once the store handle
\* and the user id are set.
C17_BlankAnswerRejected ==
  [][\A q \in QuestionIds, a \in AnswerInputs, ok \in BOOLEAN :
       (isBlank(a) /\ handleAnswerAIQuestion(q, a, ok)) =>
         /\ lastCalls' = << >>
         /\ remoteAiQuestions' = remoteAiQuestions
         /\ aiQuestions' = aiQuestions
         /\ \A u \in Uids : \A i \in DOMAIN remoteAiQuestions[u] :
              ~remoteAiQuestions[u][i].answered => ~remoteAiQuestions'[u][i].answered
         /\ showFeedback' /\ feedbackType' = "error"
         /\ ready => feedbackMessage' = MsgNoAnswer]_vars

\* A blank answer has been rejected while a generated question is unanswered
C17_Witness ==
  /\ showFeedback /\ feedbackMessage = MsgNoAnswer
  /\ lastCalls = << >>
  /\ \E e \in storedQuestions : ~e.answered

\* C18: in every state of the aiQuestions collection, a question with
\* answered = true has an answer (a non-blank string, never null or missing), after any
\* sequence of generateForYear and answer calls, two generateForYear calls that
\* produce the same ids included.
C18_AnsweredHasAnswer ==
  \A q \in storedQuestions :
    q.answered => ("answer" \in DOMAIN q /\ ~isBlank(q.answer))

\* Two calls produced the ids of one clock reading (the two questions are of
\* different years), and the second question has been answered since
C18_Witness ==
  \E t \in 0..MaxTime :
    /\ {questionId(t, "a"), questionId(t, "b")} \subseteq DOMAIN remoteAiQuestions["u1"]
    /\ LET a == remoteAiQuestions["u1"][questionId(t, "a")]
           b == remoteAiQuestions["u1"][questionId(t, "b")]
       IN /\ a.question.year # b.question.year
          /\ ~a.answered
          /\ b.answered /\ b.answer = StrA

generateStep(y, n) == \E later \in BOOLEAN : generateAIQuestionsForYear(y, later, n)

\* C19: a call of generateForYear(year) whose writes succeed issues exactly two
\* writes, of two question records, and both are then in the aiQuestions
\* collection with answered = false and a text parameterized by that year; no
\* other document of the collection changes.
C19_GenerateWritesTwoQuestions ==
  [][\A y \in Years :
       (ready /\ generateStep(y, 2)) =>
         /\ Len(lastCalls') = 2
         /\ \A k \in 1..2 :
              /\ lastCalls'[k].kind = "setDoc" /\ lastCalls'[k].coll = "aiQuestions"
              /\ lastCalls'[k].uid = userId
              /\ lastCalls'[k].id \in DOMAIN remoteAiQuestions'[userId]
              /\ LET q == remoteAiQuestions'[userId][lastCalls'[k].id]
                 IN /\ q.id = lastCalls'[k].id
                    /\ ~q.answered
                    /\ q.question.year = y
         /\ remoteAiQuestions'[userId][lastCalls'[1].id].question.text
              # remoteAiQuestions'[userId][lastCalls'[2].id].question.text
         /\ \A i \in DOMAIN remoteAiQuestions[userId] :
              i \notin {lastCalls'[1].id, lastCalls'[2].id} =>
                (i \in DOMAIN remoteAiQuestions'[userId]
                 /\ remoteAiQuestions'[userId][i] = remoteAiQuestions[userId][i])
         /\ DOMAIN remoteAiQuestions'[userId] =
              (DOMAIN remoteAiQuestions[userId]) \cup {lastCalls'[1].id, lastCalls'[2].id}]_vars

\* The two questions of 2020 have just been written next to one of 2015
C19_Witness ==
  /\ showFeedback /\ feedbackMessage = MsgGenerated
  /\ Len(lastCalls) = 2
  /\ \A k \in 1..2 :
       /\ lastCalls[k].id \in DOMAIN remoteAiQuestions["u1"]
       /\ remoteAiQuestions["u1"][lastCalls[k].id].question.year = 2020
       /\ ~remoteAiQuestions["u1"][lastCalls[k].id].answered
  /\ \E q \in storedQuestions : q.question.year = 2015

\* C20: the two questions of one call of generateForYear have distinct ids,
\* also when both ids come from the same clock reading: the two writes go to
\* two different documents.
C20_QuestionIdsDistinct ==
  [][\A y \in Years, n \in 1..2 :
       (ready /\ generateStep(y, n)) =>
         /\ Len(lastCalls') = 2
         /\ lastCalls'[1].id # lastCalls'[2].id
         /\ n = 2 =>
              remoteAiQuestions'[userId][lastCalls'[1].id].id
                # remoteAiQuestions'[userId][lastCalls'[2].id].id]_vars

\* Both ids of a successful call come from the same clock reading
C20_Witness ==
  /\ showFeedback /\ feedbackMessage = MsgGenerated
  /\ Len(lastCalls) = 2
  /\ lastCalls[1].id[2] = lastCalls[2].id[2]
  /\ {lastCalls[1].id, lastCalls[2].id} \subseteq DOMAIN remoteAiQuestions["u1"]

\* At most one run of the data effect has active listeners, they are for the
\* component's user id, they exist once the store handle, the user id and
\* isAuthReady are set, and none is left after unmount
subscriptionsFollowUser ==
  /\ Len(subscriptions) <= 1
  /\ \A k \in 1..Len(subscriptions) : subscriptions[k] = userId
  /\ (mounted /\ db /\ userId # Null /\ isAuthReady) => subscriptions = << userId >>
  /\ ~mounted => subscriptions = << >>

C16_CallsTargetCurrentUser ==
  [][/\ \A k \in 1..Len(lastCalls') : lastCalls'[k].uid = userId'
     /\ \A k \in 1..Len(subscriptions') : subscriptions'[k] = userId']_vars

otherRequestsKept(uid, id) ==
  \A u \in Uids : \A i \in DOMAIN remotePhotoRequests[u] :
    (u # uid \/ i # id) =>
      (i \in DOMAIN remotePhotoRequests'[u]
       /\ remotePhotoRequests'[u][i] = remotePhotoRequests[u][i])

\* C21: a submit that succeeds creates one photo request with the given field
\* values (the null of a cancelled prompt included), status "pending" and
\* responses 0, and changes no other stored request; simulateResponse on a
\* listed request makes it "found" with responses 1 in the component's list,
\* keeps its other fields and changes no other request of the list.
C21_SubmitThenSimulate ==
  [][/\ \A l \in PhotoTexts, d \in {Str0, StrA}, id \in RequestIds :
          (ready /\ requestHistoricalPhotos(l, StrA, d, TRUE, id)) =>
            /\ DOMAIN remotePhotoRequests'[userId] =
                 (DOMAIN remotePhotoRequests[userId]) \cup {id}
            /\ remotePhotoRequests'[userId][id] =
                 [location |-> l, timeframe |-> StrA, description |-> d,
                  status |-> "pending", responses |-> 0]
            /\ otherRequestsKept(userId, id)
     /\ \A id \in RequestIds :
          simulateResponse(id) =>
            /\ Len(photoRequests') = Len(photoRequests)
            /\ \A k \in 1..Len(photoRequests) :
                 IF photoRequests[k].id = id
                   THEN photoRequests'[k] =
                          [photoRequests[k] EXCEPT !.status = "found", !.responses = 1]
                   ELSE photoRequests'[k] = photoRequests[k]]_vars

\* Of two listed requests, the one submitted with a cancelled location prompt
\* has been given a simulated response and the other is still pending
C21_Witness ==
  /\ showFeedback /\ feedbackMessage = MsgSimulated
  /\ Len(photoRequests) = 2
  /\ \E k, j \in 1..2 :
       /\ photoRequests[k].location = PromptCancelled
       /\ photoRequests[k].status = "found" /\ photoRequests[k].responses = 1
       /\ photoRequests[j].status = "pending" /\ photoRequests[j].responses = 0

\* C22: simulateResponse issues no remote call and leaves every remote
\* collection, the photoRequests collection included, as it was.
C22_SimulateIsLocal ==
  [][\A id \in RequestIds :
       simulateResponse(id) => (lastCalls' = << >> /\ UNCHANGED storeVars)]_vars

\* A request is shown as found with one response while its stored document is
\* still pending with none
C22_Witness ==
  /\ feedbackMessage = MsgSimulated /\ lastCalls = << >>
  /\ \E k \in 1..Len(photoRequests) :
       /\ photoRequests[k].status = "found"
       /\ photoRequests[k].id \in DOMAIN remotePhotoRequests["u1"]
       /\ remotePhotoRequests["u1"][photoRequests[k].id].status = "pending"
       /\ remotePhotoRequests["u1"][photoRequests[k].id].responses = 0

\* C23: a request the component's list shows as found is not shown as pending
\* after any later step, a snapshot of the photoRequests collection included,
\* and the responses count of a listed request never decreases.
C23_FoundStaysFound ==
  [][\A k \in 1..Len(photoRequests) : \A j \in 1..Len(photoRequests') :
       photoRequests'[j].id = photoRequests[k].id =>
         /\ photoRequests[k].status = "found" => photoRequests'[j].status = "found"
         /\ photoRequests'[j].responses >= photoRequests[k].responses]_vars

\* C24: without a configuration the first run of the initialization sets the
\* error and ends loading, and the component stays so; in no state is the store
\* handle set, an auth-state listener registered (so no sign-in is attempted),
\* a user id set or a subscription active, and no step issues a remote call.
C24_ConfigMissingBlocks ==
  [][~configPresent =>
       /\ initFirebase => (error' = MsgConfigMissing /\ ~loading')
       /\ error = MsgConfigMissing => (error' = MsgConfigMissing /\ ~loading')
       /\ ~db' /\ userId' = Null
       /\ authListeners' = 0
       /\ \A ok \in BOOLEAN : ~onAuthStateChangedNoUser(ok)
       /\ subscriptions' = << >>
       /\ lastCalls' = << >>
       /\ UNCHANGED storeVars]_vars

\* The component is in the error state and a handler called since then was
\* refused without a call
C24_Witness ==
  /\ ~configPresent /\ mounted
  /\ error = MsgConfigMissing /\ ~loading
  /\ showFeedback /\ feedbackMessage = MsgNotReady
  /\ timers = 2
  /\ lastCalls = << >>

\* C28: at most one auth-state listener is registered and not unsubscribed at
\* any time, and none once the component is removed.
C28_OneAuthListener ==
  /\ authListeners <= 1
  /\ ~mounted => authListeners = 0

\* C29: while the store handle or the user id is not set, a call of save,
\* delete, answer, generateForYear, submit, addComment or likeComment issues no
\* remote call, changes nothing but the toast, and shows the error "Database
\* not ready. Please try again.".
C29_NotReadyRejected ==
  [][(mounted /\ ~(db /\ userId # Null) /\ handlerCalled) =>
       /\ lastCalls' = << >>
       /\ UNCHANGED << authVars, lifeVars, storeVars, memVars, viewVars, formVars,
                       asyncVars >>
       /\ showFeedback' /\ feedbackMessage' = MsgNotReady /\ feedbackType' = "error"
       /\ timers' = timers + 1]_vars

\* The store handle is set, the user id is not yet, and a handler has been
\* refused
C29_Witness ==
  /\ db /\ userId = Null /\ mounted
  /\ showFeedback /\ feedbackMessage = MsgNotReady /\ feedbackType = "error"
  /\ lastCalls = << >>
  /\ pending = << >>

\* No event comes before an event of a later year
yearDescending(v) ==
  \A i, j \in 1..Len(v) : i < j => v[i].year >= v[j].year

\* C25: for every list the component holds (every list a snapshot delivered),
\* the timeline view shows exactly the events of that list, each once, ordered
\* by year descending; rendering the view leaves the list with the same events.
C25_TimelineSortedByYear ==
  [][/\ LET v == timelineView(timelineEvents')
        IN isPermutation(v, timelineEvents') /\ yearDescending(v)
     /\ renderTimeline =>
          /\ isPermutation(timelineEvents', timelineEvents)
          /\ yearDescending(timelineEvents')]_vars

\* The view has been rendered for a delivered list of three events, two of
\* one year, that was not in the order of the view
C25_Witness ==
  LET delivered == snapshotDocs(remoteTimelineEvents["u1"])
  IN /\ Len(delivered) = 3
     /\ delivered[1].year = 2015 /\ delivered[2].year = 2020 /\ delivered[3].year = 2015
     /\ timelineEvents # delivered
     /\ timelineEvents = << delivered[2], delivered[1], delivered[3] >>

\* The call suspended as pending[i] races with another addComment call on the
\* same entry: the other call read the same list and has not written yet, or
\* the stored list is no longer the one this call read
raced(i) ==
  LET p == pending[i]
  IN \/ \E j \in 1..Len(pending) :
          /\ j # i /\ pending[j].kind = "add"
          /\ pending[j].uid = p.uid /\ pending[j].entryId = p.entryId
          /\ pending[j].read = p.read
     \/ remoteEntries[p.uid][p.entryId].collaborativeEntries # p.read

\* C26: when addComment calls on one entry read the entry before either
\* writes, the write of each is accepted (no rejection, no retry: one update,
\* the success toast, the call is over) and stores the list that call read
\* plus its own comment, whatever is stored by then: after the later write the
\* stored list is that of the later call and holds one new comment, not two.
C26_LaterWriteWins ==
  [][\A i \in 1..MaxPending :
       (addCommentWrite(i, TRUE) /\ raced(i)) =>
         LET p == pending[i]
             stored == remoteEntries[p.uid][p.entryId].collaborativeEntries
             stored2 == remoteEntries'[p.uid][p.entryId].collaborativeEntries
         IN /\ lastCalls' = << call("updateDoc", "entries", p.uid, p.entryId) >>
            /\ showFeedback' /\ feedbackMessage' = MsgCommentAdded
            /\ Len(pending') = Len(pending) - 1
            /\ stored2 = Append(p.read, newCollaborativeEntry(p.author, p.content))
            /\ Len(stored) = Len(p.read) + 1 => Len(stored2) = Len(stored)]_vars

\* Two calls have written with success, one after the other, and the stored
\* list holds one comment: that of the later call
C26_Witness ==
  /\ pending = << >>
  /\ timers = 2 /\ showFeedback /\ feedbackMessage = MsgCommentAdded
  /\ lastCalls = << call("updateDoc", "entries", "u1", 1) >>
  /\ Len(remoteEntries["u1"][1].collaborativeEntries) = 1
  /\ remoteEntries["u1"][1].collaborativeEntries[1].content = << "b" >>

\* C27: while the timer of the toast shown last is still running, that toast
\* is visible: no timer of an earlier toast dismisses it.
C27_ToastVisibleUntilOwnTimer ==
  (mounted /\ timers > 0) => showFeedback

====
